---- MODULE Spec2Model ----
(***************************************************************************)
(* Temoa: the Monte Carlo run coordinator (MCSequencer.start with its      *)
(* pool of Worker processes) and the commodity-network feasibility         *)
(* analyzer (CommodityNetworkManager over a NetworkModelData).             *)
(*                                                                         *)
(* The two subsystems share no state.  MCSpec runs the coordinator and     *)
(* leaves the analyzer's variables at rest; NetSpec does the opposite.     *)
(***************************************************************************)
EXTENDS Integers, Sequences, FiniteSets, TLC

\* ---------------------------------------------------------------- bounds
\* largest pool (num_workers read from the options file) explored
MaxWorkers == 4
\* largest number of runs the generator yields
MaxRuns == 6
\* largest number of solves that fail in one execution
MaxFailures == 1
\* largest pool and longest generator explored when worker processes may die
MaxMortalWorkers == 3
MaxMortalRuns == 4

\* ------------------------------------------------------- program constants
\* work_queue = Queue(1)
WorkQueueCap == 1
\* result_queue = Queue(num_workers + 1): the summand
ResultQueueExtra == 1

VARIABLES
    \* ---- Monte Carlo coordinator (mc_sequencer.py) and workers (worker.py)
    num_workers,            \* self.num_workers
    run_idx,                \* the run generator: run_idx[k] is mc_run.run_index of the k-th run
    gen_pos,                \* how many runs have been pulled from run_gen
    instance,               \* the run the coordinator holds (0: none yet)
    more_runs,              \* local more_runs
    cpc,                    \* position of MCSequencer.start
    work_queue,             \* work_queue
    result_queue,           \* result_queue
    seen_instance_indices,  \* self.seen_instance_indices
    solve_count,            \* self.solve_count
    sent,                   \* shutdown signals put so far (the for loop of step 7)
    empty,                  \* local empty: acknowledgments counted
    error,                  \* the exception start() ended with ("" : none)
    wpc,                    \* position of each Worker.run
    wheld,                  \* the model a worker holds (0: none)
    written,                \* written[k]: calls of writer.write_mc_results for run k
    dequeues,               \* dequeues[k]: times run k was taken from work_queue
    zebras,                 \* zebras[w]: shutdown signals worker w has taken
    outcome,                \* outcome[k]: "pending", "optimal" or "failed"
    \* ---- NetworkModelData (network_model_data.py)
    available_techs,        \* data.available_techs: (region, period) -> set of Tech
    techs_default,          \* whether available_techs is a defaultdict(set)
    demand_commodities,     \* data.demand_commodities: (region, period) -> set
    source_commodities,     \* data.source_commodities
    \* ---- CommodityNetworkManager (commodity_network_manager.py)
    periods,                \* self.periods
    regions,                \* self.regions (<<>> stands for None)
    analyzed,               \* self.analyzed
    orig_tech,              \* self.orig_tech
    demand_orphans,         \* self.demand_orphans
    other_orphans,          \* self.other_orphans
    valid_synthetic_links,  \* self.valid_synthetic_links
    npc,                    \* position of the caller / of analyze_network
    todo,                   \* regions the for loop of analyze_network has yet to visit
    region,                 \* _analyze_region's argument
    iter_count,             \* _analyze_region's iter_count
    pidx,                   \* position of "for period in self.periods" (line 66)
    demand_orphans_this_pass,
    other_orphans_this_pass,
    last_call,              \* outcome of the latest call of a public operation
    \* ---- linked technologies and the data store (network_model_data.py)
    available_linked_techs, \* data.available_linked_techs
    db,                     \* the tables _build_from_db reads (<<>>: none)
    \* ---- MyopicSequencer.characterize_run (myopic_sequencer.py)
    step_size,              \* self.step_size
    view_depth,             \* self.view_depth
    future_periods,         \* the argument future_periods
    instance_queue,         \* self.instance_queue, oldest window first
    base_idx,               \* index of the next window's base year
    mpc,                    \* position of characterize_run
    \* ---- TweakFactory.make_tweaks (mc_run.py)
    fields,                 \* the fields the settings row was written from
    row,                    \* the argument row, character by character
    rd,                     \* rd, the RowData of _row_parser (<<>>: none)
    made,                   \* what make_tweaks returned or raised
    tpc                     \* position of make_tweaks

mcvars == <<num_workers, run_idx, gen_pos, instance, more_runs, cpc, work_queue,
            result_queue, seen_instance_indices, solve_count, sent, empty, error,
            wpc, wheld, written, dequeues, zebras, outcome>>

netvars == <<available_techs, techs_default, demand_commodities, source_commodities,
             periods, regions, analyzed, orig_tech, demand_orphans, other_orphans,
             valid_synthetic_links, npc, todo, region, iter_count, pidx,
             demand_orphans_this_pass, other_orphans_this_pass, last_call>>

datavars == <<available_linked_techs, db>>

myvars == <<step_size, view_depth, future_periods, instance_queue, base_idx, mpc>>

twvars == <<fields, row, rd, made, tpc>>

vars == <<mcvars, netvars, datavars, myvars, twvars>>

\* The coordinator's variables while only the analyzer runs.
MCRest ==
    /\ num_workers = 0
    /\ run_idx = <<>>
    /\ gen_pos = 0
    /\ instance = 0
    /\ more_runs = TRUE
    /\ cpc = "off"
    /\ work_queue = <<>>
    /\ result_queue = <<>>
    /\ seen_instance_indices = {}
    /\ solve_count = 0
    /\ sent = 0
    /\ empty = 0
    /\ error = ""
    /\ wpc = <<>>
    /\ wheld = <<>>
    /\ written = <<>>
    /\ dequeues = <<>>
    /\ zebras = <<>>
    /\ outcome = <<>>

\* The analyzer's variables while only the coordinator runs.
NetRest ==
    /\ available_techs = <<>>
    /\ techs_default = FALSE
    /\ demand_commodities = <<>>
    /\ source_commodities = {}
    /\ periods = <<>>
    /\ regions = <<>>
    /\ analyzed = FALSE
    /\ orig_tech = <<>>
    /\ demand_orphans = <<>>
    /\ other_orphans = <<>>
    /\ valid_synthetic_links = <<>>
    /\ npc = "off"
    /\ todo = {}
    /\ region = <<>>
    /\ iter_count = 0
    /\ pidx = 0
    /\ demand_orphans_this_pass = {}
    /\ other_orphans_this_pass = {}
    /\ last_call = <<>>

\* No data store and no linked technologies.
DataRest ==
    /\ available_linked_techs = {}
    /\ db = <<>>

\* The myopic sequencer's variables while it does not run.
MyRest ==
    /\ step_size = 0
    /\ view_depth = 0
    /\ future_periods = <<>>
    /\ instance_queue = <<>>
    /\ base_idx = 0
    /\ mpc = "off"

\* The tweak factory's variables while it is not used.
TwRest ==
    /\ fields = <<>>
    /\ row = <<>>
    /\ rd = <<>>
    /\ made = <<>>
    /\ tpc = "off"

\* ------------------------------------------------------------ queue items
\* a built instance travelling through the queues; its name ends in -<run index>
Model(k) == [tag |-> "model", id |-> k]
\* work_queue.put('ZEBRA')
ZEBRA == [tag |-> "ZEBRA"]
\* results_queue.put('COYOTE')
COYOTE == [tag |-> "COYOTE"]

Workers == 1..num_workers
Runs == 1..Len(run_idx)
ResultQueueCap == num_workers + ResultQueueExtra

\* The run generator's possible outputs: K runs whose indices are 1..K, or the
\* same with the second run repeating the index of the first.
RunIndexSeqs ==
    UNION {
        {[k \in 1..K |-> k]} \cup
        (IF K >= 2 THEN {[k \in 1..K |-> IF k = 2 THEN 1 ELSE k]} ELSE {})
        : K \in 0..MaxRuns}

MCInit ==
    /\ TwRest
    /\ NetRest
    /\ DataRest
    /\ MyRest
    /\ num_workers \in 1..MaxWorkers
    /\ run_idx \in RunIndexSeqs
    /\ gen_pos = 0
    /\ instance = 0
    /\ more_runs = TRUE
    /\ cpc = "start"
    /\ work_queue = <<>>
    /\ result_queue = <<>>
    /\ seen_instance_indices = {}
    /\ solve_count = 0
    /\ sent = 0
    /\ empty = 0
    /\ error = ""
    /\ wpc = [w \in Workers |-> "new"]
    /\ wheld = [w \in Workers |-> 0]
    /\ written = [k \in Runs |-> 0]
    /\ dequeues = [k \in Runs |-> 0]
    /\ zebras = [w \in Workers |-> 0]
    /\ outcome = [k \in Runs |-> "pending"]

\* ------------------------------------------------ MCSequencer (coordinator)

\* mutant: the repeated-index test is left out
IndexSeenNever(idx) == FALSE

\* line 250: idx in self.seen_instance_indices
IndexSeen(idx) == idx \in seen_instance_indices

\* process_solve_results(instance): raises on a payload without a name (the
\* shutdown string), raises on a repeated index before anything is recorded,
\* otherwise records the index and hands the result to the writer.
ProcessSolveResults(r) ==
    IF r.tag # "model"
    THEN /\ error' = "AttributeError"
         /\ UNCHANGED <<seen_instance_indices, written>>
    ELSE IF IndexSeen(run_idx[r.id])
    THEN /\ error' = "ValueError"
         /\ UNCHANGED <<seen_instance_indices, written>>
    ELSE /\ seen_instance_indices' = seen_instance_indices \cup {run_idx[r.id]}
         /\ written' = [written EXCEPT ![r.id] = @ + 1]
         /\ error' = error

\* lines 114-151: make the queues, start the workers, pull the first run.
\* next(run_gen) on a generator without runs raises StopIteration.
Start ==
    /\ cpc = "start"
    /\ wpc' = [w \in Workers |-> "idle"]
    /\ IF Len(run_idx) = 0
       THEN /\ error' = "StopIteration"
            /\ cpc' = "raised"
            /\ UNCHANGED <<gen_pos, instance>>
       ELSE /\ gen_pos' = 1
            /\ instance' = 1
            /\ cpc' = "put"
            /\ error' = error
    /\ UNCHANGED <<netvars, datavars, myvars, twvars>>
    /\ UNCHANGED <<num_workers, run_idx, more_runs, work_queue, result_queue,
                   seen_instance_indices, solve_count, sent, empty, wheld,
                   written, dequeues, zebras, outcome>>

\* mutant: the work queue is made without a capacity
WorkQueueHasRoomAlways == TRUE

\* line 154: work_queue.put(instance, block=False) succeeds iff there is room
WorkQueueHasRoom == Len(work_queue) < WorkQueueCap

\* lines 153-168: try to put the held instance; when it went in, pull the next
\* run, or notice the generator is exhausted.
MainPut ==
    /\ cpc = "put"
    /\ IF WorkQueueHasRoom
       THEN /\ work_queue' = Append(work_queue, Model(instance))
            /\ IF gen_pos < Len(run_idx)
               THEN /\ gen_pos' = gen_pos + 1
                    /\ instance' = gen_pos + 1
                    /\ more_runs' = more_runs
               ELSE /\ more_runs' = FALSE
                    /\ UNCHANGED <<gen_pos, instance>>
       ELSE UNCHANGED <<work_queue, gen_pos, instance, more_runs>>
    /\ cpc' = "get"
    /\ UNCHANGED <<netvars, datavars, myvars, twvars>>
    /\ UNCHANGED <<num_workers, run_idx, result_queue, seen_instance_indices,
                   solve_count, sent, empty, error, wpc, wheld, written,
                   dequeues, zebras, outcome>>

\* lines 152, 169-189: result_queue.get_nowait(); a result is processed
\* unchecked; then the while condition is tested.
MainGet ==
    /\ cpc = "get"
    /\ IF result_queue # <<>>
       THEN /\ result_queue' = Tail(result_queue)
            /\ ProcessSolveResults(Head(result_queue))
            /\ solve_count' = IF error' = "" THEN solve_count + 1 ELSE solve_count
       ELSE UNCHANGED <<result_queue, seen_instance_indices, written, error,
                        solve_count>>
    /\ cpc' = IF error' # "" THEN "raised"
              ELSE IF more_runs THEN "put" ELSE "shutdown"
    /\ UNCHANGED <<netvars, datavars, myvars, twvars>>
    /\ UNCHANGED <<num_workers, run_idx, gen_pos, instance, more_runs, work_queue,
                   sent, empty, wpc, wheld, dequeues, zebras, outcome>>

\* mutant: one shutdown signal too many
ShutdownSignalsPlusOne == num_workers + 1

\* line 194: for _ in workers
ShutdownSignals == num_workers

\* lines 194-197: one blocking work_queue.put('ZEBRA') of the for loop
ShutdownPut ==
    /\ cpc = "shutdown"
    /\ WorkQueueHasRoom
    /\ work_queue' = Append(work_queue, ZEBRA)
    /\ sent' = sent + 1
    /\ cpc' = IF sent + 1 >= ShutdownSignals THEN "drain" ELSE "shutdown"
    /\ UNCHANGED <<netvars, datavars, myvars, twvars>>
    /\ UNCHANGED <<num_workers, run_idx, gen_pos, instance, more_runs, result_queue,
                   seen_instance_indices, solve_count, empty, error, wpc, wheld,
                   written, dequeues, zebras, outcome>>

\* mutant: the drain loop ends at the first acknowledgment
DrainDoneAtFirst(e) == e >= 1

\* mutant: the loop ends one acknowledgment short
DrainDoneOneShort(e) == e >= num_workers - 1

\* line 222: if empty == num_workers: break
DrainDone(e) == e = num_workers

\* mutant: the result is compared with the other signal
IsAckZebra(x) == x = ZEBRA

\* lines 204 and 208: next_result == 'COYOTE'
IsAck(x) == x = COYOTE

\* lines 201-223: one turn of the drain loop that finds something in the result
\* queue (a turn that finds it empty changes nothing and goes round again).
Drain ==
    /\ cpc = "drain"
    /\ result_queue # <<>>
    /\ result_queue' = Tail(result_queue)
    /\ IF IsAck(Head(result_queue))
       THEN /\ empty' = empty + 1
            /\ UNCHANGED <<seen_instance_indices, written, error, solve_count>>
       ELSE /\ empty' = empty
            /\ ProcessSolveResults(Head(result_queue))
            /\ solve_count' = IF error' = "" THEN solve_count + 1 ELSE solve_count
    /\ cpc' = IF error' # "" THEN "raised"
              ELSE IF DrainDone(empty') THEN "join" ELSE "drain"
    /\ UNCHANGED <<netvars, datavars, myvars, twvars>>
    /\ UNCHANGED <<num_workers, run_idx, gen_pos, instance, more_runs, work_queue,
                   sent, wpc, wheld, dequeues, zebras, outcome>>

\* lines 225-240: w.join() for every worker returns once the worker process has
\* ended; then the queues are closed.
Join ==
    /\ cpc = "join"
    /\ \A w \in Workers : wpc[w] \in {"exited", "died"}
    /\ cpc' = "done"
    /\ UNCHANGED <<netvars, datavars, myvars, twvars>>
    /\ UNCHANGED <<num_workers, run_idx, gen_pos, instance, more_runs, work_queue,
                   result_queue, seen_instance_indices, solve_count, sent, empty,
                   error, wpc, wheld, written, dequeues, zebras, outcome>>

\* ------------------------------------------------------------ Worker.run

\* line 99: self.model_queue.get() removes the head of the queue
WorkQueueAfterGet == Tail(work_queue)

\* lines 99-105: block on the work queue; a shutdown signal leads to the
\* acknowledgment, anything else is a model to solve.
WorkerGet(w) ==
    /\ wpc[w] = "idle"
    /\ \A v \in Workers : wpc[v] = "idle" => w <= v
    /\ work_queue # <<>>
    /\ work_queue' = WorkQueueAfterGet
    /\ IF Head(work_queue) = ZEBRA
       THEN /\ wpc' = [wpc EXCEPT ![w] = "ack"]
            /\ zebras' = [zebras EXCEPT ![w] = @ + 1]
            /\ UNCHANGED <<wheld, dequeues>>
       ELSE /\ wpc' = [wpc EXCEPT ![w] = "solving"]
            /\ wheld' = [wheld EXCEPT ![w] = Head(work_queue).id]
            /\ dequeues' = [dequeues EXCEPT ![Head(work_queue).id] = @ + 1]
            /\ zebras' = zebras
    /\ UNCHANGED <<netvars, datavars, myvars, twvars>>
    /\ UNCHANGED <<num_workers, run_idx, gen_pos, instance, more_runs, cpc,
                   result_queue, seen_instance_indices, solve_count, sent, empty,
                   error, written, outcome>>

\* mutant: the termination condition is not looked at
PostsResultAlways(res) == TRUE

\* lines 125-126: the result is posted iff the solve returned and
\* check_optimal_termination(res) is true
PostsResult(res) == res = "optimal"

\* what a solve can end with: the engine is free to fail, at most MaxFailures
\* times in one execution
SolveResults ==
    IF Cardinality({k \in Runs : outcome[k] = "failed"}) < MaxFailures
    THEN {"optimal", "failed"}
    ELSE {"optimal"}

\* lines 106-141: self.opt.solve(model) raises (res = None), or returns with an
\* optimal or another termination condition.
WorkerSolve(w) ==
    /\ wpc[w] = "solving"
    /\ \E res \in SolveResults :
        /\ outcome' = [outcome EXCEPT ![wheld[w]] = res]
        /\ IF PostsResult(res)
           THEN /\ wpc' = [wpc EXCEPT ![w] = "post"]
                /\ wheld' = wheld
           ELSE /\ wpc' = [wpc EXCEPT ![w] = "idle"]
                /\ wheld' = [wheld EXCEPT ![w] = 0]
    /\ UNCHANGED <<netvars, datavars, myvars, twvars>>
    /\ UNCHANGED <<num_workers, run_idx, gen_pos, instance, more_runs, cpc,
                   work_queue, result_queue, seen_instance_indices, solve_count,
                   sent, empty, error, written, dequeues, zebras>>

\* results_queue.put(...) blocks while the queue holds num_workers + 1 entries
ResultQueueHasRoom == Len(result_queue) < ResultQueueCap

\* line 127: self.results_queue.put(model), then back to the top of the loop
WorkerPost(w) ==
    /\ wpc[w] = "post"
    /\ ResultQueueHasRoom
    /\ result_queue' = Append(result_queue, Model(wheld[w]))
    /\ wpc' = [wpc EXCEPT ![w] = "idle"]
    /\ wheld' = [wheld EXCEPT ![w] = 0]
    /\ UNCHANGED <<netvars, datavars, myvars, twvars>>
    /\ UNCHANGED <<num_workers, run_idx, gen_pos, instance, more_runs, cpc,
                   work_queue, seen_instance_indices, solve_count, sent, empty,
                   error, written, dequeues, zebras, outcome>>

\* mutant: the break is left out and the worker waits for the next item
AfterAckGoesOn == "idle"

\* line 105: break, which ends run()
AfterAck == "exited"

\* lines 104-105: self.results_queue.put('COYOTE'); break
WorkerAck(w) ==
    /\ wpc[w] = "ack"
    /\ ResultQueueHasRoom
    /\ result_queue' = Append(result_queue, COYOTE)
    /\ wpc' = [wpc EXCEPT ![w] = AfterAck]
    /\ UNCHANGED <<netvars, datavars, myvars, twvars>>
    /\ UNCHANGED <<num_workers, run_idx, gen_pos, instance, more_runs, cpc,
                   work_queue, seen_instance_indices, solve_count, sent, empty,
                   error, wheld, written, dequeues, zebras, outcome>>

\* MCWorker.run, lines 121-124: the instance is built from the item outside any
\* try; an error raised there ends the worker process, which has posted
\* neither a result nor an acknowledgment.
WorkerDies(w) ==
    /\ wpc[w] = "solving"
    /\ wpc' = [wpc EXCEPT ![w] = "died"]
    /\ outcome' = [outcome EXCEPT ![wheld[w]] = "unbuilt"]
    /\ wheld' = [wheld EXCEPT ![w] = 0]
    /\ UNCHANGED <<netvars, datavars, myvars, twvars>>
    /\ UNCHANGED <<num_workers, run_idx, gen_pos, instance, more_runs, cpc,
                   work_queue, result_queue, seen_instance_indices, solve_count,
                   sent, empty, error, written, dequeues, zebras>>

Coordinator == Start \/ MainPut \/ MainGet \/ ShutdownPut \/ Drain \/ Join

WorkerStep(w) == WorkerGet(w) \/ WorkerSolve(w) \/ WorkerPost(w) \/ WorkerAck(w)

MCNext ==
    \/ Start
    \/ MainPut
    \/ MainGet
    \/ ShutdownPut
    \/ Drain
    \/ Join
    \/ \E w \in Workers : WorkerGet(w)
    \/ \E w \in Workers : WorkerSolve(w)
    \/ \E w \in Workers : WorkerPost(w)
    \/ \E w \in Workers : WorkerAck(w)

MCSpec == MCInit /\ [][MCNext]_vars

\* The same coordinator over a pool of workers that build their instance
\* themselves (MCWorker) and may die doing so.
MCMortalInit ==
    /\ MCInit
    /\ num_workers <= MaxMortalWorkers
    /\ Len(run_idx) <= MaxMortalRuns

MCMortalNext ==
    \/ Start
    \/ MainPut
    \/ MainGet
    \/ ShutdownPut
    \/ Drain
    \/ Join
    \/ \E w \in Workers : WorkerGet(w)
    \/ \E w \in Workers : WorkerSolve(w)
    \/ \E w \in Workers : WorkerPost(w)
    \/ \E w \in Workers : WorkerAck(w)
    \/ \E w \in Workers : WorkerDies(w)

MCMortalSpec == MCMortalInit /\ [][MCMortalNext]_vars

\* The coordinator is one running thread and every worker its own process:
\* each keeps taking its next step whenever that step is possible.
MCFairSpec ==
    /\ MCSpec
    /\ WF_vars(Coordinator)
    /\ \A w \in 1..MaxWorkers : WF_vars(w \in Workers /\ WorkerStep(w))

\* ------------------------------------------------------------ predicates

\* every run the generator yields carries its own index
DistinctIndices == \A j, k \in Runs : run_idx[j] = run_idx[k] => j = k

\* no solve has failed
AllOptimal == \A k \in Runs : outcome[k] # "failed"

\* a worker that cannot take its next step: waiting for work that is not there,
\* or putting into the full result queue; a worker that has ended
WorkerBlocked(w) ==
    \/ wpc[w] \in {"exited", "died"}
    \/ wpc[w] = "idle" /\ work_queue = <<>>
    \/ wpc[w] \in {"post", "ack"} /\ ~ResultQueueHasRoom

\* the coordinator waits in a blocking call: the put of a shutdown signal into
\* the full work queue, or the join of a worker that has not ended
CoordinatorBlocked ==
    \/ cpc = "shutdown" /\ ~WorkQueueHasRoom
    \/ cpc = "join" /\ \E w \in Workers : wpc[w] \notin {"exited", "died"}

Deadlocked == CoordinatorBlocked /\ \A w \in Workers : WorkerBlocked(w)


\* ------------------------------------------------- claims on the coordinator

\* acknowledgments, results and signals currently in a queue
InQueue(q, x) == \E i \in 1..Len(q) : q[i] = x

\* C1: with distinct run indices no run is ever dequeued twice or aggregated
\* twice, and once start() has finished with every solve optimal, each of the K
\* runs was dequeued by exactly one worker and passed to the writer exactly once.
C1_EachRunOnce ==
    DistinctIndices =>
        /\ \A k \in Runs : written[k] <= 1 /\ dequeues[k] <= 1
        /\ (cpc = "done" /\ AllOptimal) =>
              /\ \A k \in Runs : written[k] = 1 /\ dequeues[k] = 1
              /\ solve_count = Len(run_idx)
              /\ seen_instance_indices = {run_idx[k] : k \in Runs}

C1_Witness ==
    /\ cpc = "done"
    /\ DistinctIndices
    /\ AllOptimal
    /\ num_workers >= 2
    /\ Len(run_idx) > num_workers
    /\ \A k \in Runs : written[k] = 1

\* C2: with every solve optimal, no state is a deadlock in which the
\* coordinator and every live worker wait on a queue operation (so that
\* start() can go on to its end).
C2_NoDeadlock == (DistinctIndices /\ AllOptimal) => ~Deadlocked

\* C3: with M >= 1 failed solves the run neither wedges nor loses or invents a
\* result: at the end exactly the optimal runs were aggregated, all
\* acknowledgments were counted and all workers have ended.
C3_PartialResultsAndEnd ==
    (DistinctIndices /\ ~AllOptimal) =>
        /\ ~Deadlocked
        /\ cpc = "done" =>
              /\ \A k \in Runs : written[k] = (IF outcome[k] = "optimal" THEN 1 ELSE 0)
              /\ empty = num_workers
              /\ \A w \in Workers : wpc[w] = "exited"

\* the part of C3 that is about the results alone
C3_PartialResults ==
    (DistinctIndices /\ cpc = "done") =>
        /\ \A k \in Runs : written[k] = (IF outcome[k] = "optimal" THEN 1 ELSE 0)
        /\ empty = num_workers
        /\ \A w \in Workers : wpc[w] = "exited"

\* the coordinator takes the head of the result queue
CoordinatorTakes ==
    /\ cpc \in {"get", "drain"}
    /\ result_queue # <<>>
    /\ result_queue' = Tail(result_queue)

\* C4: a result whose run index is already in seen_instance_indices makes
\* process_solve_results raise: the writer is not called, the set of seen
\* indices stays as it is, and start() ends with the error.
C4_DuplicateIsFatal ==
    [][(/\ CoordinatorTakes
        /\ Head(result_queue).tag = "model"
        /\ run_idx[Head(result_queue).id] \in seen_instance_indices)
       => (/\ error' = "ValueError"
           /\ cpc' = "raised"
           /\ written' = written
           /\ seen_instance_indices' = seen_instance_indices
           /\ solve_count' = solve_count)]_vars

C4_Witness ==
    /\ error = "ValueError"
    /\ cpc = "raised"
    /\ Len(run_idx) >= 2
    /\ written[1] + written[2] = 1
    /\ run_idx[1] \in seen_instance_indices

AcksInQueue == Cardinality({i \in 1..Len(result_queue) : result_queue[i] = COYOTE})

Posted(k) ==
    Cardinality({i \in 1..Len(result_queue) : result_queue[i] = Model(k)})
    + Cardinality({w \in Workers : wpc[w] = "post" /\ wheld[w] = k})
    + written[k]

\* C12: a run whose solve raised or ended non-optimal is never posted, never
\* written, and after its one dequeue is neither in the work queue nor with any
\* worker again; with distinct indices a run whose solve ended optimal is
\* posted exactly once (it waits for room in the result queue, is in it, or
\* was handed to the writer); a run not yet solved is not posted; a worker
\* holds a model only while it solves or posts it, so after a failure it is
\* back at the work queue.
C12_FailureIsolation ==
    /\ \A k \in Runs :
          /\ outcome[k] = "failed" =>
                /\ Posted(k) = 0
                /\ ~InQueue(work_queue, Model(k))
                /\ \A w \in Workers : wheld[w] # k
                /\ dequeues[k] = 1
          /\ (outcome[k] = "optimal" /\ DistinctIndices /\ error = "") => Posted(k) = 1
          /\ outcome[k] = "pending" => Posted(k) = 0
          /\ dequeues[k] <= 1
    /\ \A w \in Workers :
          /\ wheld[w] # 0 <=> wpc[w] \in {"solving", "post"}
          /\ wpc[w] = "post" => outcome[wheld[w]] = "optimal"
          /\ (wheld[w] = 0 /\ zebras[w] = 0) => wpc[w] \in {"new", "idle", "died"}

\* the only worker failed on the first run and had the second written
C12_Witness ==
    /\ num_workers = 1
    /\ Len(run_idx) >= 3
    /\ DistinctIndices
    /\ outcome[1] = "failed"
    /\ written[1] = 0
    /\ written[2] = 1
    /\ dequeues[1] = 1
    /\ wpc[1] = "solving"
    /\ wheld[1] = 3

\* C13: with a generator that yields no run, start() raises nothing, sends no
\* run to the pool, and at its end has written nothing and has counted the
\* acknowledgment of every worker.
C13_EmptyGeneratorEnds ==
    Len(run_idx) = 0 =>
        /\ error = ""
        /\ cpc # "raised"
        /\ work_queue \in {<<>>, <<ZEBRA>>}
        /\ cpc = "done" => (empty = num_workers /\ solve_count = 0)

\* the drain loop turns with nothing to take and nobody left to post: every
\* worker process has ended, one of them without its acknowledgment
DrainsInVain ==
    /\ cpc = "drain"
    /\ result_queue = <<>>
    /\ \A w \in Workers : wpc[w] \in {"exited", "died"}
    /\ \E w \in Workers : wpc[w] = "died"

\* C17: when a worker has ended without posting its acknowledgment, the
\* coordinator is not left in the drain loop with nothing more to come: it
\* has raised.
C17_MissingAckIsFatal == ~DrainsInVain

\* C18: in a run with distinct indices and no failed solve, whenever a worker
\* has taken its shutdown signal and is about to post the acknowledgment, the
\* result queue holds fewer than num_workers + 1 entries, so that the put does
\* not block.
C18_AckNeverBlocks ==
    (DistinctIndices /\ AllOptimal) =>
        \A w \in Workers : wpc[w] = "ack" => Len(result_queue) < num_workers + 1

\* the coordinator waits in the blocking put of a shutdown signal while every
\* worker that has not ended waits to put into the full result queue
ShutdownWedged ==
    /\ cpc = "shutdown"
    /\ ~WorkQueueHasRoom
    /\ \A w \in Workers :
          wpc[w] # "exited" => (wpc[w] \in {"post", "ack"} /\ ~ResultQueueHasRoom)

\* C25: in a run with distinct indices and no failed solve, for every pool
\* size, the coordinator is never stuck putting a shutdown signal while every
\* worker that has not ended is stuck posting to the full result queue.
C25_ShutdownNeverWedges == (DistinctIndices /\ AllOptimal) => ~ShutdownWedged

\* C26: a worker that is about to post its acknowledgment, or has posted it,
\* holds no result and posts none afterwards, so that in the result queue its
\* results come before its acknowledgment; once the coordinator has left the
\* drain loop the result queue is empty, every worker has ended after its
\* acknowledgment, every acknowledgment was counted and every run that was
\* solved to optimality was handed to process_solve_results and written.
C26_NoResultLeftBehind ==
    /\ [](/\ \A w \in Workers : wpc[w] \in {"ack", "exited"} => wheld[w] = 0
          /\ cpc \in {"join", "done"} =>
                /\ result_queue = <<>>
                /\ empty = num_workers
                /\ \A w \in Workers : wpc[w] = "exited"
                /\ \A k \in Runs :
                      written[k] = (IF outcome[k] = "optimal" THEN 1 ELSE 0))
    /\ [][\A w \in Workers :
            wpc[w] = "exited" =>
                /\ wpc'[w] = "exited"
                /\ (Len(result_queue') > Len(result_queue) =>
                        \E v \in Workers : wpc[v] \in {"post", "ack"} /\ wpc'[v] # wpc[v])]_vars

\* the coordinator has just left the drain loop; it counted two
\* acknowledgments, three runs were written and one solve had failed
C26_Witness ==
    /\ cpc = "join"
    /\ num_workers = 2
    /\ Len(run_idx) = 4
    /\ solve_count = 3
    /\ \E k \in Runs : outcome[k] = "failed" /\ written[k] = 0
    /\ \A k \in Runs : outcome[k] = "optimal" => written[k] = 1

\* C27: as long as the coordinator is in its main loop no acknowledgment is
\* in the result queue or about to be posted, so none can reach
\* process_solve_results there; a turn of the drain loop that takes an
\* acknowledgment adds one to the counter and neither writes nor counts a
\* solve; no acknowledgment ever makes process_solve_results raise; and the
\* acknowledgments counted, queued and about to be posted never number more
\* than the workers.
C27_AckNeverAggregated ==
    /\ [](/\ cpc \in {"start", "put", "get"} =>
                /\ ~InQueue(result_queue, COYOTE)
                /\ \A w \in Workers : wpc[w] # "ack"
                /\ empty = 0
          /\ error # "AttributeError"
          /\ empty <= num_workers
          /\ empty <= sent
          /\ \A i \in 1..Len(result_queue) :
                result_queue[i] = COYOTE => cpc \in {"shutdown", "drain", "raised"})
    /\ [][(CoordinatorTakes /\ Head(result_queue) = COYOTE) =>
            /\ empty' = empty + 1
            /\ written' = written
            /\ solve_count' = solve_count
            /\ seen_instance_indices' = seen_instance_indices
            /\ error' = error]_vars

\* the drain loop has counted one acknowledgment of two; the other is behind
\* a result in the queue
C27_Witness ==
    /\ cpc = "drain"
    /\ num_workers = 2
    /\ empty = 1
    /\ Len(result_queue) = 2
    /\ result_queue[1].tag = "model"
    /\ result_queue[2] = COYOTE

\* the models in a queue
ModelsIn(q) == Cardinality({i \in 1..Len(q) : q[i].tag = "model"})

\* instances that were enqueued and not yet aggregated: in the work queue,
\* with a worker, or in the result queue
InFlight ==
    ModelsIn(work_queue) + Cardinality({w \in Workers : wheld[w] # 0})
        + ModelsIn(result_queue)

\* instances that went into the work queue so far
Enqueued ==
    ModelsIn(work_queue)
        + Cardinality({k \in Runs : dequeues[k] > 0})

\* C28: never more than num_workers + 2 instances are enqueued and not yet
\* aggregated; at the end of every turn of the main loop, and from then on,
\* they are at most num_workers + 1; and the coordinator never holds more
\* than one instance it has pulled from the generator and not yet enqueued.
C28_BoundedInFlight ==
    /\ InFlight <= num_workers + 2
    /\ cpc \in {"put", "shutdown", "drain", "join", "done"} =>
          InFlight <= num_workers + 1
    /\ DistinctIndices => gen_pos - Enqueued \in {0, 1}
    /\ (cpc \in {"put", "get"} /\ more_runs) => instance = gen_pos

\* two workers: in the middle of a turn of the main loop four instances are
\* in flight, one in the work queue, one with a worker, two in the result queue
C28_Witness ==
    /\ cpc = "get"
    /\ num_workers = 2
    /\ InFlight = 4
    /\ ModelsIn(work_queue) = 1
    /\ ModelsIn(result_queue) >= 1

\* =================================================== network_model_data.py

\* Tech = namedtuple('Tech', ['region', 'ic', 'name', 'vintage', 'oc'])
Tech(r, ic, name, v, oc) ==
    [region |-> r, ic |-> ic, name |-> name, vintage |-> v, oc |-> oc]

\* Region names, character by character: R1, R2 and the exchange R1-R2
R1 == <<"R", "1">>
R2 == <<"R", "2">>
R1_R2 == <<"R", "1", "-", "R", "2">>

\* The periods handed to the manager, in the caller's order
GivenPeriods == <<2030, 2020>>

\* The network of tests/test_network_model_data.py (lines 37-75) in region R1,
\* and one more technology, t6, that neither hangs on a source nor leads to a
\* demand.
TestNetwork ==
    { Tech(R1, "s1", "t4", 2000, "p3"), Tech(R1, "s1", "t4", 1990, "p3"),
      Tech(R1, "s1", "t1", 2000, "p1"), Tech(R1, "p1", "t2", 2000, "d1"),
      Tech(R1, "p2", "t3", 2000, "d1"), Tech(R1, "p2", "t5", 2000, "d2") }

R1Universe == TestNetwork \cup { Tech(R1, "p2", "t6", 2000, "p3") }

\* technologies of the other regions
R2Universe == { Tech(R2, "s1", "u1", 2000, "d1"), Tech(R2, "p2", "u2", 2000, "d1") }
ExchangeUniverse ==
    { Tech(R1_R2, "p2", "x1", 2000, "p1"), Tech(R1_R2, "s1", "x2", 2000, "p3") }

\* how many technologies of R1's universe a bucket of R1 may lack
MaxAbsent == 1

R1Buckets == {R1Universe \ M : M \in {X \in SUBSET R1Universe : Cardinality(X) <= MaxAbsent}}

\* period -> bucket, for the periods in which the region has a bucket at all
R2Choices == {[p \in P |-> B] : P \in {{2020, 2030}, {2020}},
                                B \in {R2Universe, {Tech(R2, "s1", "u1", 2000, "d1")},
                                       {Tech(R2, "p2", "u2", 2000, "d1")}}}

ExchangeChoices ==
    { [p \in {2020, 2030} |-> ExchangeUniverse],
      [p \in {2020} |-> {Tech(R1_R2, "p2", "x1", 2000, "p1")}] }

\* a dict read: d.get(k, set())
Get(d, k) == IF k \in DOMAIN d THEN d[k] ELSE {}

\* a dict write: d[k] = v
Put(d, k, v) == [x \in DOMAIN d \cup {k} |-> IF x = k THEN v ELSE d[x]]

\* self.periods = sorted(periods)
RECURSIVE SortedSeq(_)
SortedSeq(S) ==
    IF S = {} THEN <<>>
    ELSE LET m == CHOOSE x \in S : \A y \in S : x <= y
         IN <<m>> \o SortedSeq(S \ {m})

Range(f) == {f[i] : i \in DOMAIN f}

\* NetworkModelData(**kwargs) followed by CommodityNetworkManager(periods, data):
\* the state after construction (lines 43-55).
NetInit ==
    /\ TwRest
    /\ MCRest
    /\ DataRest
    /\ MyRest
    /\ \E b1 \in R1Buckets, b2 \in R1Buckets, y \in R2Choices, x \in ExchangeChoices :
        available_techs =
            [k \in ({<<R1, 2020>>, <<R1, 2030>>}
                    \cup {<<R2, p>> : p \in DOMAIN y}
                    \cup {<<R1_R2, p>> : p \in DOMAIN x}) |->
                IF k[1] = R1 THEN (IF k[2] = 2020 THEN b1 ELSE b2)
                ELSE IF k[1] = R2 THEN y[k[2]]
                ELSE x[k[2]]]
    \* the kind of dict is never looked at when no bucket is missing
    /\ techs_default \in
        IF \A p \in Range(GivenPeriods) : <<R2, p>> \in DOMAIN available_techs
        THEN {FALSE} ELSE BOOLEAN
    /\ \E d \in {{"d1", "d2"}, {"d1"}} :
        demand_commodities =
            [k \in {R1, R2, R1_R2} \X {2020, 2030} |->
                IF k[1] = R1 THEN (IF k[2] = 2020 THEN {"d1", "d2"} ELSE d)
                ELSE {"d1"}]
    /\ source_commodities = {"s1"}
    /\ periods = SortedSeq(Range(GivenPeriods))
    /\ regions = <<>>
    /\ analyzed = FALSE
    /\ orig_tech = available_techs
    /\ demand_orphans = <<>>
    /\ other_orphans = <<>>
    /\ valid_synthetic_links = <<>>
    /\ npc = "idle"
    /\ todo = {}
    /\ region = <<>>
    /\ iter_count = 0
    /\ pidx = 0
    /\ demand_orphans_this_pass = {}
    /\ other_orphans_this_pass = {}
    /\ last_call = [op |-> "none", at |-> "", raised |-> "", returned |-> FALSE,
                    filts |-> <<>>]

\* ===================================== CommodityNetwork (one region, period)

\* commodities reachable from the commodities C through the technologies T
RECURSIVE Forward(_, _)
Forward(C, T) ==
    LET next == C \cup {t.oc : t \in {u \in T : u.ic \in C}}
    IN IF next = C THEN C ELSE Forward(next, T)

\* commodities from which the technologies T lead to a commodity of C
RECURSIVE Backward(_, _)
Backward(C, T) ==
    LET next == C \cup {t.ic : t \in {u \in T : u.oc \in C}}
    IN IF next = C THEN C ELSE Backward(next, T)

\* the technology set CommodityNetwork(region, period, model_data) works on
Bucket(r, p) == Get(available_techs, <<r, p>>)

\* cn.get_other_orphans(): input not reachable from a source
GetOtherOrphans(r, p) ==
    {t \in Bucket(r, p) : t.ic \notin Forward(source_commodities, Bucket(r, p))}

\* cn.get_demand_side_orphans(): output reaches no demand of (r, p)
GetDemandSideOrphans(r, p) ==
    {t \in Bucket(r, p) :
        t.oc \notin Backward(demand_commodities[<<r, p>>], Bucket(r, p))}

\* cn.get_valid_tech()
GetValidTech(r, p) ==
    Bucket(r, p) \ (GetOtherOrphans(r, p) \cup GetDemandSideOrphans(r, p))

\* cn.get_synthetic_links(): valid combinations of a technology name of which
\* another combination was flagged as an orphan
GetSyntheticLinks(r, p) ==
    {t \in GetValidTech(r, p) :
        \E o \in GetOtherOrphans(r, p) \cup GetDemandSideOrphans(r, p) :
            o.name = t.name}

\* ================================================ CommodityNetworkManager

\* line 71: new_demand_orphans = cn.get_demand_side_orphans()
NewDemandOrphans(r, p) == GetDemandSideOrphans(r, p)

\* mutant: the wrong getter is called
NewOtherOrphansFromDemandSide(r, p) == GetDemandSideOrphans(r, p)

\* mutant: a technology already gathered as a demand-side orphan is left out
NewOtherOrphansUnlessDemandSide(r, p) ==
    GetOtherOrphans(r, p) \ GetDemandSideOrphans(r, p)

\* line 72: new_other_orphans = cn.get_other_orphans()
NewOtherOrphans(r, p) == GetOtherOrphans(r, p)

\* mutant: no region is taken for an exchange
IsExchangeNever(r) == FALSE

\* line 116: '-' not in r
IsExchange(r) == \E i \in 1..Len(r) : r[i] = "-"

\* line 116: {r for (r, p) in self.data.available_techs if '-' not in r}
AnalyzedRegions == {k[1] : k \in {x \in DOMAIN available_techs : ~IsExchange(x[1])}}

\* lines 109-117: analyze_network() computes the regions and enters its loop
AnalyzeNetwork ==
    /\ npc = "idle"
    /\ regions' = AnalyzedRegions
    /\ todo' = AnalyzedRegions
    /\ npc' = "regions"
    /\ UNCHANGED <<mcvars, datavars, myvars, twvars>>
    /\ UNCHANGED <<available_techs, techs_default, demand_commodities,
                   source_commodities, periods, analyzed, orig_tech, demand_orphans,
                   other_orphans, valid_synthetic_links, region, iter_count, pidx,
                   demand_orphans_this_pass, other_orphans_this_pass, last_call>>

\* lines 117-119 and 59-65: the for loop takes a region (a set has no order)
\* and _analyze_region starts its first pass
AnalyzeRegion ==
    /\ npc = "regions"
    /\ \E r \in todo :
        /\ region' = r
        /\ todo' = todo \ {r}
    /\ iter_count' = 1
    /\ demand_orphans_this_pass' = {}
    /\ other_orphans_this_pass' = {}
    /\ pidx' = 1
    /\ npc' = "period"
    /\ UNCHANGED <<mcvars, datavars, myvars, twvars>>
    /\ UNCHANGED <<available_techs, techs_default, demand_commodities,
                   source_commodities, periods, regions, analyzed, orig_tech,
                   demand_orphans, other_orphans, valid_synthetic_links, last_call>>

\* mutant: = in place of |=, which forgets the orphans of earlier passes
AccumulatedByAssignment(old, new) == new

\* mutant: &= in place of |=, which records nothing
AccumulatedByIntersection(old, new) == old \cap new

\* lines 75-76: self.demand_orphans[region, period] |= new_demand_orphans
Accumulated(old, new) == old \cup new

\* lines 66-84: one period of the pass.  Reading a bucket the dict does not
\* hold raises KeyError on a plain dict and makes an empty bucket on a
\* defaultdict.
AnalyzePeriod ==
    /\ npc = "period"
    /\ LET p == periods[pidx]
           key == <<region, p>>
       IN IF key \notin DOMAIN available_techs /\ ~techs_default
          THEN /\ npc' = "aborted"
               /\ UNCHANGED <<available_techs, demand_orphans, other_orphans,
                              demand_orphans_this_pass, other_orphans_this_pass,
                              valid_synthetic_links, pidx>>
          ELSE /\ available_techs' = Put(available_techs, key, Bucket(region, p))
               /\ demand_orphans' =
                    Put(demand_orphans, key,
                        Accumulated(Get(demand_orphans, key), NewDemandOrphans(region, p)))
               /\ other_orphans' =
                    Put(other_orphans, key,
                        Accumulated(Get(other_orphans, key), NewOtherOrphans(region, p)))
               /\ demand_orphans_this_pass' =
                    demand_orphans_this_pass \cup NewDemandOrphans(region, p)
               /\ other_orphans_this_pass' =
                    other_orphans_this_pass \cup NewOtherOrphans(region, p)
               /\ valid_synthetic_links' =
                    Put(valid_synthetic_links, key, GetSyntheticLinks(region, p))
               /\ pidx' = pidx + 1
               /\ npc' = IF pidx = Len(periods) THEN "cleanup" ELSE "period"
    /\ UNCHANGED <<mcvars, datavars, myvars, twvars>>
    /\ UNCHANGED <<techs_default, demand_commodities, source_commodities, periods,
                   regions, analyzed, orig_tech, todo, region, iter_count, last_call>>

\* mutant: ^= in place of -=, which puts an orphan of one period into the
\* buckets that did not hold it
PrunedBySymmetricDifference(bucket) ==
    (bucket \ (demand_orphans_this_pass \cup other_orphans_this_pass))
        \cup ((demand_orphans_this_pass \cup other_orphans_this_pass) \ bucket)

\* mutant: line 93 is left out, the other orphans stay
PrunedOfDemandOrphansOnly(bucket) == bucket \ demand_orphans_this_pass

\* lines 92-93: the bucket of one period after the pass
Pruned(bucket) == (bucket \ demand_orphans_this_pass) \ other_orphans_this_pass

\* mutant: the loop stops after its first pass
PassDoneAtOnce == TRUE

\* mutant: done is computed from the records, which keep the orphans of the
\* earlier passes
PassDoneFromRecords ==
    \A i \in 1..Len(periods) :
        /\ Get(demand_orphans, <<region, periods[i]>>) = {}
        /\ Get(other_orphans, <<region, periods[i]>>) = {}

\* line 95: done = not demand_orphans_this_pass and not other_orphans_this_pass
PassDone == demand_orphans_this_pass = {} /\ other_orphans_this_pass = {}

\* lines 90-95 and 62-65: strip this pass's orphans from every period of the
\* region, then either leave the loop or start the next pass
CleanUp ==
    /\ npc = "cleanup"
    /\ available_techs' =
        [k \in DOMAIN available_techs |->
            IF k[1] = region /\ k[2] \in Range(periods)
            THEN Pruned(available_techs[k])
            ELSE available_techs[k]]
    /\ IF PassDone
       THEN /\ npc' = "regions"
            /\ UNCHANGED <<iter_count, pidx, demand_orphans_this_pass,
                           other_orphans_this_pass>>
       ELSE /\ npc' = "period"
            /\ iter_count' = iter_count + 1
            /\ pidx' = 1
            /\ demand_orphans_this_pass' = {}
            /\ other_orphans_this_pass' = {}
    /\ UNCHANGED <<mcvars, datavars, myvars, twvars>>
    /\ UNCHANGED <<techs_default, demand_commodities, source_commodities, periods,
                   regions, analyzed, orig_tech, demand_orphans, other_orphans,
                   valid_synthetic_links, todo, region, last_call>>

\* lines 117-120: the for loop is exhausted; self.analyzed = True
AnalyzeNetworkReturn ==
    /\ npc = "regions"
    /\ todo = {}
    /\ analyzed' = TRUE
    /\ npc' = "finished"
    /\ UNCHANGED <<mcvars, datavars, myvars, twvars>>
    /\ UNCHANGED <<available_techs, techs_default, demand_commodities,
                   source_commodities, periods, regions, orig_tech, demand_orphans,
                   other_orphans, valid_synthetic_links, todo, region, iter_count,
                   pidx, demand_orphans_this_pass, other_orphans_this_pass, last_call>>

\* mutant: the filters are built from the buckets as they were before pruning
AllTechsBeforePruning == UNION {orig_tech[k] : k \in DOMAIN orig_tech}

\* every technology in any bucket
AllTechs == UNION {available_techs[k] : k \in DOMAIN available_techs}

\* lines 126-150: the filters built from every bucket
Filters ==
    [ritvo |-> {<<t.region, t.ic, t.name, t.vintage, t.oc>> : t \in AllTechs},
     rtv |-> {<<t.region, t.name, t.vintage>> : t \in AllTechs},
     rt |-> {<<t.region, t.name>> : t \in AllTechs},
     t |-> {t.name : t \in AllTechs},
     v |-> {t.vintage : t \in AllTechs},
     ic |-> {t.ic : t \in AllTechs},
     oc |-> {t.oc : t \in AllTechs}]

\* mutant: the guard is left out
RefusesNever == FALSE

\* lines 124 and 154: if not self.analyzed: raise RuntimeError
Refuses == ~analyzed

\* the single thread is outside analyze_network: before it, after it returned,
\* or after it raised
CallerHasControl == npc \in {"idle", "finished", "aborted"}

\* lines 122-151: build_filters()
BuildFilters ==
    /\ CallerHasControl
    /\ last_call' =
        IF Refuses
        THEN [op |-> "build_filters", at |-> npc, raised |-> "RuntimeError",
              returned |-> FALSE, filts |-> <<>>]
        ELSE [op |-> "build_filters", at |-> npc, raised |-> "", returned |-> TRUE,
              filts |-> Filters]
    /\ UNCHANGED <<mcvars, datavars, myvars, twvars>>
    /\ UNCHANGED <<available_techs, techs_default, demand_commodities,
                   source_commodities, periods, regions, analyzed, orig_tech,
                   demand_orphans, other_orphans, valid_synthetic_links, npc, todo,
                   region, iter_count, pidx, demand_orphans_this_pass,
                   other_orphans_this_pass>>

\* lines 153-200: make_commodity_plots(config) draws from the records and
\* changes none of them
MakeCommodityPlots ==
    /\ CallerHasControl
    /\ last_call' =
        IF Refuses
        THEN [op |-> "make_commodity_plots", at |-> npc, raised |-> "RuntimeError",
              returned |-> FALSE, filts |-> <<>>]
        ELSE [op |-> "make_commodity_plots", at |-> npc, raised |-> "",
              returned |-> TRUE, filts |-> <<>>]
    /\ UNCHANGED <<mcvars, datavars, myvars, twvars>>
    /\ UNCHANGED <<available_techs, techs_default, demand_commodities,
                   source_commodities, periods, regions, analyzed, orig_tech,
                   demand_orphans, other_orphans, valid_synthetic_links, npc, todo,
                   region, iter_count, pidx, demand_orphans_this_pass,
                   other_orphans_this_pass>>

NetNext ==
    \/ AnalyzeNetwork
    \/ AnalyzeRegion
    \/ AnalyzePeriod
    \/ CleanUp
    \/ AnalyzeNetworkReturn
    \/ BuildFilters
    \/ MakeCommodityPlots

NetSpec == NetInit /\ [][NetNext]_vars

\* ---------------------------------------------------- claims on the analyzer

\* what one more pass over region r would find
RerunOrphans(r) ==
    UNION {GetDemandSideOrphans(r, periods[i]) \cup GetOtherOrphans(r, periods[i]) :
           i \in 1..Len(periods)}

\* C5: after analyze_network has returned, the same analysis run again finds
\* no demand-side orphan and no other orphan in any analyzed (region, period),
\* so that it would strip nothing from any bucket.
C5_Idempotent ==
    npc = "finished" =>
        \A r \in regions :
            /\ RerunOrphans(r) = {}
            /\ \A i \in 1..Len(periods) :
                  GetValidTech(r, periods[i]) = Bucket(r, periods[i])

\* a run of more than two passes that pruned something, ended
C5_Witness ==
    /\ npc = "finished"
    /\ iter_count >= 3
    /\ \E k \in DOMAIN orig_tech : available_techs[k] # orig_tech[k]
    /\ \E k \in DOMAIN available_techs : ~IsExchange(k[1]) /\ available_techs[k] # {}

\* C6: every bucket is at all times a subset of what it was before the
\* analysis (a bucket made on the way is empty), and no step ever adds a
\* technology to a bucket.
C6_MonotonePruning ==
    /\ [](\A k \in DOMAIN available_techs : available_techs[k] \subseteq Get(orig_tech, k))
    /\ [][\A k \in DOMAIN available_techs' :
            available_techs'[k] \subseteq Get(available_techs, k)]_vars

\* a pass has stripped a technology from the bucket of a period in whose own
\* analysis it was no orphan
C6_Witness ==
    /\ npc = "period"
    /\ iter_count = 2
    /\ \E i \in 1..Len(periods) :
          LET key == <<region, periods[i]>>
          IN /\ key \in DOMAIN available_techs
             /\ key \in DOMAIN orig_tech
             /\ \E t \in orig_tech[key] \ available_techs[key] :
                    t \notin Get(demand_orphans, key) \cup Get(other_orphans, key)

\* commodities every set closed under the technologies T and holding C holds
ClosedForward(C, T) ==
    LET all == C \cup {t.ic : t \in T} \cup {t.oc : t \in T}
    IN {c \in all :
          \A X \in SUBSET all :
              (C \subseteq X /\ \A t \in T : t.ic \in X => t.oc \in X) => c \in X}

ClosedBackward(C, T) ==
    LET all == C \cup {t.ic : t \in T} \cup {t.oc : t \in T}
    IN {c \in all :
          \A X \in SUBSET all :
              (C \subseteq X /\ \A t \in T : t.oc \in X => t.ic \in X) => c \in X}

HasMarker(r) == \E i \in 1..Len(r) : r[i] = "-"

\* C8: a region whose name holds '-' is never among the analyzed regions, its
\* buckets are at all times what they were before the analysis, no bucket is
\* made for it and no orphan is recorded for it.
C8_ExchangeExcluded ==
    /\ npc # "idle" => \A r \in regions : ~HasMarker(r)
    /\ ~HasMarker(region)
    /\ \A k \in DOMAIN available_techs \ DOMAIN orig_tech : ~HasMarker(k[1])
    /\ \A k \in DOMAIN orig_tech :
          HasMarker(k[1]) =>
              /\ available_techs[k] = orig_tech[k]
              /\ Get(demand_orphans, k) = {}
              /\ Get(other_orphans, k) = {}

\* the analysis has returned and the exchange region still holds a technology
\* whose input nothing supplies
C8_Witness ==
    /\ npc = "finished"
    /\ <<R1_R2, 2020>> \in DOMAIN available_techs
    /\ GetOtherOrphans(R1_R2, 2020) # {}
    /\ \E k \in DOMAIN orig_tech : available_techs[k] # orig_tech[k]

\* C9: as long as analyze_network has not returned, the latest call of
\* build_filters or make_commodity_plots has raised RuntimeError and returned
\* nothing; self.analyzed is true only once the loop over the regions is
\* exhausted with every analyzed region at its fixed point, and stays false
\* when the analysis raised on its way.
C9_RefusesBeforeAnalysis ==
    /\ (last_call.op # "none" /\ last_call.at # "finished") =>
          /\ last_call.raised = "RuntimeError"
          /\ ~last_call.returned
          /\ last_call.filts = <<>>
    /\ analyzed =>
          /\ npc = "finished"
          /\ todo = {}
          /\ \A r \in AnalyzedRegions : RerunOrphans(r) = {}
    /\ npc # "finished" => ~analyzed

\* build_filters was called after the analysis had raised, and refused
C9_Witness ==
    /\ npc = "aborted"
    /\ last_call.op = "build_filters"
    /\ last_call.at = "aborted"
    /\ last_call.raised = "RuntimeError"
    /\ \E k \in DOMAIN orig_tech : available_techs[k] # orig_tech[k]

\* the (region, input, name, vintage, output) tuple of a technology
Ritvo(t) == <<t.region, t.ic, t.name, t.vintage, t.oc>>

C19_OrphansAppendOnly ==
    [][/\ \A k \in DOMAIN demand_orphans :
             /\ k \in DOMAIN demand_orphans'
             /\ demand_orphans[k] \subseteq demand_orphans'[k]
       /\ \A k \in DOMAIN other_orphans :
             /\ k \in DOMAIN other_orphans'
             /\ other_orphans[k] \subseteq other_orphans'[k]]_vars

\* at the end of the second pass the record of one (region, period) holds an
\* orphan found in this pass next to one found in the first
C19_Witness ==
    /\ npc = "cleanup"
    /\ iter_count = 2
    /\ \E i \in 1..Len(periods) :
          LET key == <<region, periods[i]>>
              rec == Get(demand_orphans, key) \cup Get(other_orphans, key)
              now == demand_orphans_this_pass \cup other_orphans_this_pass
          IN /\ rec \cap now # {}
             /\ rec \ now # {}

\* the orphans gathered in the pass that is about to be cleaned up
OrphansThisPass == demand_orphans_this_pass \cup other_orphans_this_pass

RegionTechs(r) == UNION {orig_tech[k] : k \in {x \in DOMAIN orig_tech : x[1] = r}}

\* the technologies region r holds now, over all its periods
RegionUnion(r) == UNION {available_techs[k] : k \in {x \in DOMAIN available_techs : x[1] = r}}

RecordedAsBoth(r) ==
    UNION {Get(demand_orphans, <<r, periods[i]>>) \cap Get(other_orphans, <<r, periods[i]>>) :
           i \in 1..Len(periods)}

Recorded(r) ==
    UNION {demand_orphans[k] \cup other_orphans[k] :
           k \in {x \in DOMAIN demand_orphans \cap DOMAIN other_orphans : x[1] = r}}

LinkedTech(r, driver, emission, driven) ==
    [region |-> r, driver |-> driver, emission |-> emission, driven |-> driven]

\* lifetimes the 1990 vintage of t4 may have: ended before 2020, ending with
\* the year before 2020, ending between the periods, outliving them
Lifetimes == {20, 30, 35, 100}

\* rows of the Efficiency query: (region, input, tech, vintage, output, lifetime)
EfficiencyRows(life) ==
    { <<R1, "s1", "t1", 2000, "p1", 100>>, <<R1, "p1", "t2", 2000, "d1", 100>>,
      <<R1, "p2", "t3", 2000, "d1", 100>>, <<R1, "s1", "t4", 1990, "p3", life>>,
      <<R1, "s1", "t7", 2030, "d1", 100>> }

\* the rows of the mock data store of tests/test_network_model_data.py
TestEfficiencyRows ==
    { <<R1, "s1", "t4", 2000, "p3", 100>>, <<R1, "s1", "t4", 1990, "p3", 100>>,
      <<R1, "s1", "t1", 2000, "p1", 100>>, <<R1, "p1", "t2", 2000, "d1", 100>>,
      <<R1, "p2", "t3", 2000, "d1", 100>>, <<R1, "p2", "t5", 2000, "d2", 100>> }

\* rows of the Demand table: (regions, periods, demand_comm)
DemandRows(P) == {<<R1, p, "d1">> : p \in P}

\* the time_periods tables explored
PeriodTables == {{2020}, {2020, 2030}, {2000, 2020, 2030}}

\* the argument myopic_index: None (<<>>) or a window of the planning horizon
MyopicIndices ==
    { <<>>,
      [base_year |-> 2020, last_demand_year |-> 2020],
      [base_year |-> 2020, last_demand_year |-> 2030],
      [base_year |-> 2030, last_demand_year |-> 2030] }

\* the mock data store of the test
TestDb ==
    [efficiency |-> TestEfficiencyRows, linked |-> {}, t_periods |-> {2020},
     demand |-> {<<R1, 2020, "d1">>, <<R1, 2020, "d2">>}, myopic_index |-> <<>>]

\* rows the LinkedTechs table may hold: (primary_region, primary_tech, emis_comm,
\* linked_tech); t9 has no Efficiency row
LinkedRows ==
    { <<R1, "t1", "co2", "t2">>, <<R1, "t3", "co2", "t1">>,
      <<R1, "t4", "co2", "t1">>, <<R1, "t9", "co2", "t1">> }

\* the data stores explored
DbChoices ==
    { [efficiency |-> EfficiencyRows(life), linked |-> L, t_periods |-> Range(GivenPeriods),
       demand |-> DemandRows(Range(GivenPeriods)), myopic_index |-> <<>>] :
        life \in Lifetimes, L \in SUBSET LinkedRows }
    \cup
    { [efficiency |-> EfficiencyRows(life), linked |-> {}, t_periods |-> P,
       demand |-> DemandRows(P), myopic_index |-> m] :
        life \in Lifetimes, P \in PeriodTables, m \in MyopicIndices }
    \cup {TestDb}

\* lines 176-182: the periods of time_periods, within the myopic window if one
\* is given
ModelPeriods(d) ==
    IF d.myopic_index = <<>> THEN d.t_periods
    ELSE {p \in d.t_periods :
            d.myopic_index.base_year <= p /\ p <= d.myopic_index.last_demand_year}

\* mutant: the year in which the lifetime ends is counted in
AliveToTheEnd(element, p) == element[4] <= p /\ p <= element[4] + element[6]

\* line 189: if v <= p < v + lifetime
Alive(element, p) == element[4] <= p /\ p < element[4] + element[6]

\* lines 183-192: techs, a defaultdict that holds a bucket for every (r, p) in
\* which some technology lives
BuiltTechs(d) ==
    [k \in {<<element[1], p>> : element \in d.efficiency, p \in ModelPeriods(d)} \cap
           {x \in {R1, R2, R1_R2} \X ModelPeriods(d) :
               \E element \in d.efficiency : element[1] = x[1] /\ Alive(element, x[2])} |->
        {Tech(element[1], element[2], element[3], element[4], element[5]) :
            element \in {e \in d.efficiency : e[1] = k[1] /\ Alive(e, k[2])}}]

\* lines 184-191: living_techs, the names of the technologies alive in a period
LivingTechs(d) ==
    {element[3] : element \in {e \in d.efficiency : \E p \in ModelPeriods(d) : Alive(e, p)}}

\* lines 137-141: demand_dict, a defaultdict: the demands of the rows of the
\* Demand table, and the empty set where a (region, period) without row is read
DemandDict(d) ==
    [k \in {R1} \X (d.t_periods \cup Range(GivenPeriods)) |->
        {element[3] : element \in {x \in d.demand : x[1] = k[1] /\ x[2] = k[2]}}]

\* lines 198-202: the linked technologies whose driver and driven are living
BuiltLinkedTechs(d) ==
    {LinkedTech(element[1], element[2], element[3], element[4]) :
        element \in {l \in d.linked : l[2] \in LivingTechs(d) /\ l[4] \in LivingTechs(d)}}

\* dicts a caller may hand over as available_techs: the second holds a
\* technology of region R2 in a bucket of R1
GivenTechs ==
    { [k \in {<<R1, 2020>>, <<R1, 2030>>} |->
          {Tech(R1, "s1", "t1", 2000, "p1"), Tech(R1, "p1", "t2", 2000, "d1")}],
      [k \in {<<R1, 2020>>, <<R1, 2030>>} |->
          IF k[2] = 2020
          THEN {Tech(R1, "s1", "t1", 2000, "p1"), Tech(R2, "s1", "u1", 2000, "d1")}
          ELSE {Tech(R1, "s1", "t1", 2000, "p1"), Tech(R1, "p1", "t2", 2000, "d1")}],
      [k \in {<<R1, 2020>>, <<R1, 2030>>} |-> {Tech(R1, "s1", "t8", 2000, "d1")}] }

\* lines 65-67: some technology sits in a bucket of another region
RegionViolation(d) == \E k \in DOMAIN d : \E tech \in d[k] : tech.region # k[1]

NoCall == [op |-> "none", at |-> "", raised |-> "", returned |-> FALSE, filts |-> <<>>]

\* a data store is at hand and no NetworkModelData has been made
DataInit ==
    /\ TwRest
    /\ MCRest
    /\ MyRest
    /\ db \in DbChoices
    /\ available_linked_techs = {}
    /\ available_techs = <<>>
    /\ techs_default = FALSE
    /\ demand_commodities = <<>>
    /\ source_commodities = {}
    /\ periods = <<>>
    /\ regions = <<>>
    /\ analyzed = FALSE
    /\ orig_tech = <<>>
    /\ demand_orphans = <<>>
    /\ other_orphans = <<>>
    /\ valid_synthetic_links = <<>>
    /\ npc = "nodata"
    /\ todo = {}
    /\ region = <<>>
    /\ iter_count = 0
    /\ pidx = 0
    /\ demand_orphans_this_pass = {}
    /\ other_orphans_this_pass = {}
    /\ last_call = NoCall

\* what the manager's fields are left at while the data are made
ManagerUntouched ==
    UNCHANGED <<periods, regions, analyzed, orig_tech, demand_orphans, other_orphans,
                valid_synthetic_links, todo, region, iter_count, pidx,
                demand_orphans_this_pass, other_orphans_this_pass>>

\* lines 124-204: _build_from_db(con)
BuildFromDb ==
    /\ npc = "nodata"
    /\ available_techs' = BuiltTechs(db)
    /\ techs_default' = TRUE
    /\ available_linked_techs' = BuiltLinkedTechs(db)
    /\ demand_commodities' = DemandDict(db)
    /\ source_commodities' = {"s1"}
    /\ npc' = "data"
    /\ ManagerUntouched
    /\ UNCHANGED <<mcvars, myvars, twvars, db, last_call>>

\* lines 47-56: NetworkModelData(**kwargs) stores what it is given
Construct ==
    /\ npc = "nodata"
    /\ available_techs' \in GivenTechs
    /\ techs_default' = FALSE
    /\ available_linked_techs' = {}
    /\ demand_commodities' = [k \in {R1} \X Range(GivenPeriods) |-> {"d1"}]
    /\ source_commodities' = {"s1"}
    /\ db' = <<>>
    /\ npc' = "data"
    /\ ManagerUntouched
    /\ UNCHANGED <<mcvars, myvars, twvars, last_call>>

\* lines 62-71: data.available_techs = d
SetAvailableTechs ==
    /\ npc = "data"
    /\ \E d \in GivenTechs :
        IF RegionViolation(d)
        THEN /\ last_call' = [op |-> "set_available_techs", at |-> npc,
                              raised |-> "ValueError", returned |-> FALSE, filts |-> <<>>]
             /\ UNCHANGED <<available_techs, techs_default>>
        ELSE /\ last_call' = [op |-> "set_available_techs", at |-> npc,
                              raised |-> "", returned |-> TRUE, filts |-> <<>>]
             /\ available_techs' = d
             /\ techs_default' = FALSE
    /\ ManagerUntouched
    /\ UNCHANGED <<mcvars, myvars, twvars, datavars>>
    /\ UNCHANGED <<demand_commodities, source_commodities, npc>>

\* commodity_network_manager.py lines 43-55: CommodityNetworkManager(periods, data)
NewManager ==
    /\ npc = "data"
    /\ periods' = SortedSeq(Range(GivenPeriods))
    /\ orig_tech' = available_techs
    /\ npc' = "idle"
    /\ UNCHANGED <<mcvars, myvars, twvars, datavars>>
    /\ UNCHANGED <<available_techs, techs_default, demand_commodities,
                   source_commodities, regions, analyzed, demand_orphans,
                   other_orphans, valid_synthetic_links, todo, region, iter_count,
                   pidx, demand_orphans_this_pass, other_orphans_this_pass, last_call>>

DataNext ==
    \/ BuildFromDb
    \/ Construct
    \/ SetAvailableTechs
    \/ NewManager
    \/ AnalyzeNetwork
    \/ AnalyzeRegion
    \/ AnalyzePeriod
    \/ CleanUp
    \/ AnalyzeNetworkReturn
    \/ BuildFilters
    \/ MakeCommodityPlots

DataSpec == DataInit /\ [][DataNext]_vars

\* C16: at all times every technology in a bucket (region, period) carries
\* that region, whether the data were made with keyword data, assigned, or
\* pruned by the analyzer.
C16_RegionConsistent ==
    \A k \in DOMAIN available_techs : \A tech \in available_techs[k] : tech.region = k[1]

\* the part of C16 about the assignment: one that would put a technology into
\* a bucket of another region raises ValueError and leaves the stored sets as
\* they were; any other is stored
C16_SetterGuards ==
    [][(last_call' # last_call /\ last_call'.op = "set_available_techs") =>
          IF last_call'.raised = "ValueError"
          THEN available_techs' = available_techs
          ELSE ~RegionViolation(available_techs')]_vars

\* names of the technologies in some bucket
LiveNames == {tech.name : tech \in UNION {available_techs[k] : k \in DOMAIN available_techs}}

\* C20: in data built from the data store and since then changed by the
\* analyzer alone, every linked technology held has its driver and its driven
\* technology in some bucket.
C20_LinkedBothLive ==
    (db # <<>> /\ npc # "nodata" /\ last_call.op = "none") =>
        \A l \in available_linked_techs : l.driver \in LiveNames /\ l.driven \in LiveNames

\* the part of C20 about the build: right after _build_from_db exactly the rows
\* whose driver and driven both live in some period are held
C20_LinkedAfterBuild ==
    (db # <<>> /\ npc \in {"data", "idle"} /\ last_call.op = "none") =>
        /\ \A l \in available_linked_techs : l.driver \in LiveNames /\ l.driven \in LiveNames
        /\ \A element \in db.linked :
              LinkedTech(element[1], element[2], element[3], element[4]) \in available_linked_techs
                  <=> (element[2] \in LiveNames /\ element[4] \in LiveNames)

\* the years at which a bucket might be looked for
Years == {1990, 2000, 2010, 2020, 2030, 2040}

\* C30: in data just built from the data store, the technology of a row
\* (r, ic, t, v, oc, lifetime) is in the bucket (r, p) if and only if p is a
\* period of time_periods, within base_year..last_demand_year when a myopic
\* window is given, with v <= p < v + lifetime; no bucket holds anything else;
\* and the data store of the test yields six technologies in ('R1', 2020).
C30_BucketsByLifetime ==
    (db # <<>> /\ npc = "data" /\ last_call.op = "none") =>
        /\ \A element \in db.efficiency : \A p \in Years :
              Tech(element[1], element[2], element[3], element[4], element[5])
                    \in Get(available_techs, <<element[1], p>>)
              <=> /\ p \in db.t_periods
                  /\ db.myopic_index # <<>> =>
                        /\ db.myopic_index.base_year <= p
                        /\ p <= db.myopic_index.last_demand_year
                  /\ element[4] <= p
                  /\ p < element[4] + element[6]
        /\ \A k \in DOMAIN available_techs :
              /\ k[2] \in Years
              /\ \A tech \in available_techs[k] :
                    \E element \in db.efficiency :
                        tech = Tech(element[1], element[2], element[3], element[4], element[5])
        /\ db = TestDb => Cardinality(available_techs[<<R1, 2020>>]) = 6

\* the data store of the test was built: six technologies live in 2020
C30_Witness ==
    /\ db = TestDb
    /\ npc = "data"
    /\ last_call.op = "none"
    /\ Cardinality(Get(available_techs, <<R1, 2020>>)) = 6

\* a build under a myopic window that leaves out a period of time_periods, of
\* rows of which one has expired and one is not yet built
C30_WitnessWindow ==
    /\ db # <<>>
    /\ npc = "data"
    /\ last_call.op = "none"
    /\ db.myopic_index # <<>>
    /\ db.t_periods = {2000, 2020, 2030}
    /\ db.myopic_index.base_year = 2020
    /\ db.myopic_index.last_demand_year = 2020
    /\ DOMAIN available_techs = {<<R1, 2020>>}
    /\ Tech(R1, "s1", "t4", 1990, "p3") \notin available_techs[<<R1, 2020>>]
    /\ Tech(R1, "s1", "t7", 2030, "d1") \notin available_techs[<<R1, 2020>>]
    /\ Tech(R1, "s1", "t1", 2000, "p1") \in available_techs[<<R1, 2020>>]

\* ===================================== MyopicSequencer.characterize_run
\* characterize_run as the description of the window generation and
\* tests/test_myopic_sequencer.py give it.

\* largest step size, view depth and number of future periods explored
MaxStepSize == 4
MaxViewDepth == 4
MaxPeriods == 6

\* MyopicIndex(base_year, last_demand_year, last_year)
MyopicIndex(b, d, l) == [base_year |-> b, last_demand_year |-> d, last_year |-> l]

\* list(range(n))
RangeList(n) == [i \in 1..n |-> i - 1]

Min(a, b) == IF a <= b THEN a ELSE b

\* the periods a window that starts at index idx (from 0) can see: view_depth
\* of them, or as many as lie before the last period
Depth(idx) == Min(view_depth, Len(future_periods) - idx - 1)

\* the window that starts at index idx: its last demand year is the last of
\* the periods it sees, its last year the period after that
Window(idx) ==
    MyopicIndex(future_periods[idx + 1],
                future_periods[idx + Depth(idx)],
                future_periods[idx + Depth(idx) + 1])

\* mutant: the windows advance by one period whatever the step size
NextBaseByOne(idx) == idx + 1

\* the next window starts step_size periods later
NextBase(idx) == idx + step_size

\* ms = MyopicSequencer(config=None) with view_depth and step_size set, about
\* to run characterize_run(future_periods)
MyInit ==
    /\ TwRest
    /\ MCRest
    /\ NetRest
    /\ DataRest
    /\ step_size \in 1..MaxStepSize
    /\ view_depth \in 1..MaxViewDepth
    /\ future_periods \in {RangeList(n) : n \in 1..MaxPeriods}
    /\ instance_queue = <<>>
    /\ base_idx = 0
    /\ mpc = "characterize"

\* one turn of the slicing loop: a window is put at the left end of the queue
\* as long as its base year lies before the last period
CharacterizeStep ==
    /\ mpc = "characterize"
    /\ IF base_idx < Len(future_periods) - 1
       THEN /\ instance_queue' = <<Window(base_idx)>> \o instance_queue
            /\ base_idx' = NextBase(base_idx)
            /\ mpc' = mpc
       ELSE /\ mpc' = "ready"
            /\ UNCHANGED <<instance_queue, base_idx>>
    /\ UNCHANGED <<mcvars, netvars, datavars, twvars>>
    /\ UNCHANGED <<step_size, view_depth, future_periods>>

\* the stepper takes the oldest window, which is at the right end of the queue
NextWindow ==
    /\ mpc \in {"ready", "run"}
    /\ IF instance_queue # <<>>
       THEN /\ instance_queue' = SubSeq(instance_queue, 1, Len(instance_queue) - 1)
            /\ mpc' = "run"
       ELSE /\ mpc' = "done"
            /\ UNCHANGED instance_queue
    /\ UNCHANGED <<mcvars, netvars, datavars, twvars>>
    /\ UNCHANGED <<step_size, view_depth, future_periods, base_idx>>

MyNext ==
    \/ CharacterizeStep
    \/ NextWindow

MySpec == MyInit /\ [][MyNext]_vars

\* the windows in the order they were made
WindowsInOrder == [i \in 1..Len(instance_queue) |-> instance_queue[Len(instance_queue) + 1 - i]]

\* C14: when characterize_run has sliced the periods [0, 1, 2, 3, 4], step size
\* 1 with view depth 3 has made the windows (0,2,3), (1,3,4), (2,3,4), (3,3,4)
\* in this order and no other, step size 3 with view depth 4 the windows
\* (0,3,4), (3,3,4); in both cases the window made last, the one popleft()
\* gives, is (3,3,4).
C14_MyopicWindows ==
    (mpc = "ready" /\ future_periods = <<0, 1, 2, 3, 4>>) =>
        /\ (step_size = 1 /\ view_depth = 3) =>
              /\ WindowsInOrder = << MyopicIndex(0, 2, 3), MyopicIndex(1, 3, 4),
                                     MyopicIndex(2, 3, 4), MyopicIndex(3, 3, 4) >>
              /\ Head(instance_queue) = MyopicIndex(3, 3, 4)
        /\ (step_size = 3 /\ view_depth = 4) =>
              /\ WindowsInOrder = << MyopicIndex(0, 3, 4), MyopicIndex(3, 3, 4) >>
              /\ Head(instance_queue) = MyopicIndex(3, 3, 4)

C14_Witness ==
    /\ mpc = "ready"
    /\ future_periods = <<0, 1, 2, 3, 4>>
    /\ step_size = 3
    /\ view_depth = 4
    /\ Len(instance_queue) = 2
    /\ instance_queue[1].base_year = 3

\* ============================================ TweakFactory.make_tweaks
\* A settings row is a sequence of characters.

\* the text of each field a row may be written from
RunTexts == {<<"1">>, <<"2", "2">>, <<"z">>}
ParamTexts == {<<"d", "o", "g">>, <<" ", "c", "a", "t">>, <<"p", "i", "g">>}
IndexTexts == {<<"1", "|", "2">>, <<"c", "|", "d", "/", "e", "/", "f", "|", "9", "/", "1", "0">>, <<"1", "|", "|", "2">>, <<"(", "5", "|", "6", ")">>}
AdjustmentTexts == {<<"a">>, <<" ", "r", " ">>, <<"x">>}
ValueTexts == {<<"1", ".", "0">>, <<"2">>}
NotesTexts == {<<>>, <<"o", "k", " ", "n", "o", "t", "e", "s">>, <<"7">>}

\* the keys of the data store the factory validates against
val_data == {<<"d", "o", "g">>, <<"c", "a", "t">>}

\* ','.join(fs)
RECURSIVE JoinFields(_)
JoinFields(fs) ==
    IF Len(fs) = 1 THEN fs[1] ELSE fs[1] \o <<",">> \o JoinFields(Tail(fs))

\* s.split(sep)
RECURSIVE Split(_, _)
Split(s, sep) ==
    IF \A i \in 1..Len(s) : s[i] # sep THEN <<s>>
    ELSE LET i == CHOOSE i \in 1..Len(s) : s[i] = sep /\ \A j \in 1..(i - 1) : s[j] # sep
         IN <<SubSeq(s, 1, i - 1)>> \o Split(SubSeq(s, i + 1, Len(s)), sep)

\* s.strip()
RECURSIVE Strip(_)
Strip(s) ==
    IF s = <<>> THEN s
    ELSE IF Head(s) = " " THEN Strip(Tail(s))
    ELSE IF s[Len(s)] = " " THEN Strip(SubSeq(s, 1, Len(s) - 1))
    ELSE s

Digits == <<"0", "1", "2", "3", "4", "5", "6", "7", "8", "9">>

DigitValue(c) == (CHOOSE i \in 1..10 : Digits[i] = c) - 1

AllDigits(s) == \A i \in 1..Len(s) : \E d \in 1..10 : Digits[d] = s[i]

\* int(s) succeeds on a stripped token
IsInt(s) == s # <<>> /\ AllDigits(s)

\* int(s)
RECURSIVE IntOf(_)
IntOf(s) ==
    IF s = <<>> THEN 0 ELSE 10 * IntOf(SubSeq(s, 1, Len(s) - 1)) + DigitValue(s[Len(s)])

\* float(s) succeeds: digits with at most one point among them
IsFloat(s) ==
    LET parts == Split(s, ".")
    IN /\ Len(parts) <= 2
       /\ \A i \in 1..Len(parts) : AllDigits(parts[i])
       /\ \E i \in 1..Len(parts) : parts[i] # <<>>

\* float(s), in tenths (the texts explored have at most one decimal)
FloatOf(s) ==
    LET parts == Split(s, ".")
    IN 10 * IntOf(parts[1])
       + (IF Len(parts) = 2 /\ parts[2] # <<>> THEN DigitValue(parts[2][1]) ELSE 0)

\* s.replace(c, '')
Without(s, c) == SelectSeq(s, LAMBDA x : x # c)

\* '||' in s
HasEmptyMarker(s) == \E i \in 1..(Len(s) - 1) : s[i] = "|" /\ s[i + 1] = "|"

\* line 124: tokens[-1]
ValueToken(tokens) == Len(tokens)

\* lines 114-142: _row_parser(idx, row); "raised" is the exception it ends with
RowParser(text) ==
    LET tokens == [i \in 1..Len(Split(Strip(text), ",")) |-> Strip(Split(Strip(text), ",")[i])]
        v == ValueToken(tokens)
    IN IF ~IsInt(tokens[1]) THEN [raised |-> "ValueError"]
       ELSE IF v > Len(tokens) \/ ~IsFloat(tokens[v]) THEN [raised |-> "ValueError"]
       ELSE IF Len(tokens) # 5 THEN [raised |-> "TypeError"]
       ELSE IF tokens[2] \notin val_data THEN [raised |-> "ValueError"]
       ELSE IF tokens[4] \notin {<<"r">>, <<"a">>, <<"s">>} THEN [raised |-> "ValueError"]
       ELSE IF HasEmptyMarker(tokens[3]) THEN [raised |-> "ValueError"]
       ELSE [raised |-> "", run |-> IntOf(tokens[1]), param_name |-> tokens[2],
             indices |-> tokens[3], adjustment |-> tokens[4], value |-> FloatOf(tokens[v])]

\* lines 93-103: a token of the index becomes an int when it is one
IndexValue(t) ==
    IF IsInt(t) THEN [int |-> TRUE, n |-> IntOf(t), text |-> <<>>]
    ELSE [int |-> FALSE, n |-> 0, text |-> t]

\* lines 82-106: the alternatives at each position of the index
IndexGroups(indices) ==
    LET tokens == Split(Without(Without(indices, "("), ")"), "|")
    IN [pos \in 1..Len(tokens) |->
          LET sub_tokens == Split(Strip(tokens[pos]), "/")
          IN [j \in 1..Len(sub_tokens) |-> IndexValue(Strip(sub_tokens[j]))]]

\* line 107: product(*index_groups), in its order
RECURSIVE Product(_)
Product(groups) ==
    IF groups = <<>> THEN << <<>> >>
    ELSE LET rest == Product(Tail(groups))
             h == Head(groups)
         IN [k \in 1..(Len(h) * Len(rest)) |->
                <<h[((k - 1) \div Len(rest)) + 1]>> \o rest[((k - 1) % Len(rest)) + 1]]

\* Tweak(param_name, indices, adjustment, value)
Tweak(param_name, indices, adjustment, value) ==
    [param_name |-> param_name, indices |-> indices, adjustment |-> adjustment,
     value |-> value]

NotMade == [raised |-> "", returned |-> FALSE, run |-> 0, tweaks |-> <<>>]

\* a row written from five fields, or from six with the notes
TwInit ==
    /\ MCRest
    /\ NetRest
    /\ DataRest
    /\ MyRest
    /\ \E r \in RunTexts, pn \in ParamTexts, ix \in IndexTexts, ad \in AdjustmentTexts,
          va \in ValueTexts :
          \/ fields = <<r, pn, ix, ad, va>>
          \/ \E no \in NotesTexts : fields = <<r, pn, ix, ad, va, no>>
    /\ row = JoinFields(fields)
    /\ rd = <<>>
    /\ made = NotMade
    /\ tpc = "parse"

\* line 80: rd = self._row_parser(idx, row)
ParseRow ==
    /\ tpc = "parse"
    /\ rd' = RowParser(row)
    /\ IF RowParser(row).raised # ""
       THEN /\ made' = [NotMade EXCEPT !.raised = RowParser(row).raised]
            /\ tpc' = "raised"
       ELSE /\ made' = made
            /\ tpc' = "expand"
    /\ UNCHANGED <<mcvars, netvars, datavars, myvars>>
    /\ UNCHANGED <<fields, row>>

\* lines 81-112: the tweaks of every combination of the index alternatives
MakeTweaks ==
    /\ tpc = "expand"
    /\ made' = [raised |-> "", returned |-> TRUE, run |-> rd.run,
                tweaks |-> [k \in 1..Len(Product(IndexGroups(rd.indices))) |->
                              Tweak(rd.param_name, Product(IndexGroups(rd.indices))[k],
                                    rd.adjustment, rd.value)]]
    /\ tpc' = "done"
    /\ UNCHANGED <<mcvars, netvars, datavars, myvars>>
    /\ UNCHANGED <<fields, row, rd>>

TwNext ==
    \/ ParseRow
    \/ MakeTweaks

TwSpec == TwInit /\ [][TwNext]_vars

\* the fields are those of a well-formed row
WellFormed(fs) ==
    /\ fs[1] \in {<<"1">>, <<"2", "2">>}
    /\ Strip(fs[2]) \in val_data
    /\ fs[3] \in {<<"1", "|", "2">>, <<"c", "|", "d", "/", "e", "/", "f", "|", "9", "/", "1", "0">>, <<"(", "5", "|", "6", ")">>}
    /\ Strip(fs[4]) \in {<<"r">>, <<"a">>, <<"s">>}
    /\ fs[5] \in {<<"1", ".", "0">>, <<"2">>}

\* the number of index tuples a row asks for: at every '|'-separated position
\* one more alternative for every '/'
RECURSIVE Alternatives(_, _, _)
Alternatives(s, i, here) ==
    IF i > Len(s) THEN here
    ELSE IF s[i] = "|" THEN here * Alternatives(s, i + 1, 1)
    ELSE IF s[i] = "/" THEN Alternatives(s, i + 1, here + 1)
    ELSE Alternatives(s, i + 1, here)

\* what make_tweaks is to return for the fields fs
AsExpected(fs) ==
    /\ tpc = "done"
    /\ made.raised = ""
    /\ made.returned
    /\ made.run = (IF fs[1] = <<"1">> THEN 1 ELSE 22)
    /\ Len(made.tweaks) = Alternatives(fs[3], 1, 1)
    /\ Cardinality({made.tweaks[k].indices : k \in 1..Len(made.tweaks)}) = Len(made.tweaks)
    /\ \A k \in 1..Len(made.tweaks) :
          /\ made.tweaks[k].param_name = Strip(fs[2])
          /\ made.tweaks[k].adjustment = Strip(fs[4])
          /\ made.tweaks[k].value = (IF fs[5] = <<"2">> THEN 20 ELSE 10)
    /\ fs[3] = <<"1", "|", "2">> => Len(made.tweaks) = 1
    /\ fs[3] = <<"c", "|", "d", "/", "e", "/", "f", "|", "9", "/", "1", "0">> => Len(made.tweaks) = 6

\* C21: for a well-formed row of the six fields run, param, index, adjustment,
\* value, notes, make_tweaks returns the run number and one tweak for every
\* combination of the index alternatives (1 for 1|2, 6 for c|d/e/f|9/10), each
\* with the row's parameter name, adjustment and value.
C21_TweaksPerRow ==
    (tpc \in {"done", "raised"} /\ Len(fields) = 6 /\ WellFormed(fields)) =>
        AsExpected(fields)

\* the same for a row that ends with the value and has no notes field
C21_WithoutNotes ==
    (tpc \in {"done", "raised"} /\ Len(fields) = 5 /\ WellFormed(fields)) =>
        AsExpected(fields)

====
